---- MODULE Spec2Model ----
(***************************************************************************)
(* A model of circadian_scp_upload: DailyTransferClient.run and the        *)
(* per-item upload (client.py), TwinFileLock, UploadMeta and the date       *)
(* parser (utils.py), and the directory checksum (checksum.py).            *)
(*                                                                         *)
(* Names are sequences of character codes: 0..9 are the digits, codes from *)
(* 10 on are other characters.  File contents are sequences of bytes.      *)
(* MD5 is modelled collision-free: two digests are equal exactly when the  *)
(* digested byte strings are equal, so a digest is represented by the byte *)
(* string it was computed from.                                            *)
(***************************************************************************)
EXTENDS Integers, Sequences, FiniteSets, TLC

(***************************************************************************)
(* Bounds of the model.                                                    *)
(***************************************************************************)
\* data files per item are numbered 1..MaxFiles (sorted(...) is the numeric order)
MaxFiles == 2
\* calls of run() per session
MaxRuns == 2
\* writes of other parties to the remote item directory during an upload
MaxInterf == 1
\* lock-file inodes that can be alive at the same time
MaxIno == 3
\* the names given to the parser on its own have MinNameLen..MaxNameLen characters
MaxNameLen == 9
MinNameLen == MaxNameLen - 1
\* the names with a date and more after it have up to MaxTail more characters
MaxTail == 3
\* the texts given to the validator of dated_regex have up to MaxTokens tokens
MaxTokens == 5
\* max_depth is None or one of 0..MaxDepthArg
MaxDepthArg == 2
\* the directories given to compare_directory_screens hold up to MaxScreen files
MaxScreen == 2
\* the outputs given to screen_remote_directory have up to MaxLines lines
MaxLines == 3

Files == 1..MaxFiles

Bytes == {1, 2}

\* the contents a file can have: byte strings of length 0 or 1
Content == {<<>>} \cup {<<b>> : b \in Bytes}

\* "no such file"
Absent == <<0>>

\* there is no upload-meta.json: this value, in the place of the list of
\* uploaded files that the file holds
NoMeta == << <<>> >>

\* the source (and destination) root as a lock key; an item directory is
\* keyed by its name
Root == <<>>

(***************************************************************************)
(* Dates.  A date is <<year, month, day>>.                                 *)
(***************************************************************************)
IsLeap(y) ==
    (y % 4 = 0 /\ y % 100 # 0) \/ y % 400 = 0

DaysInMonth(y, m) ==
    IF m = 2 THEN (IF IsLeap(y) THEN 29 ELSE 28)
    ELSE IF m \in {4, 6, 9, 11} THEN 30 ELSE 31

\* datetime.datetime.strptime accepts years 1..9999 and calendar days only
ValidDate(y, m, d) ==
    /\ y >= 1
    /\ m \in 1..12
    /\ d >= 1
    /\ d <= DaysInMonth(y, m)

DateLE(a, b) ==
    \/ a[1] < b[1]
    \/ a[1] = b[1] /\ a[2] < b[2]
    \/ a[1] = b[1] /\ a[2] = b[2] /\ a[3] <= b[3]

\* date - timedelta(days=1)
PrevDay(dt) ==
    IF dt[3] > 1 THEN <<dt[1], dt[2], dt[3] - 1>>
    ELSE IF dt[2] > 1 THEN <<dt[1], dt[2] - 1, DaysInMonth(dt[1], dt[2] - 1)>>
    ELSE <<dt[1] - 1, 12, 31>>

\* the day on which run() is called
Today == <<2024, 3, 1>>

\* the values of datetime.now().hour the model distinguishes
Hours == {0, 1}

\* utils.py:47-49
LatestDate(h) ==
    IF h > 0 THEN PrevDay(Today) ELSE PrevDay(PrevDay(Today))

(***************************************************************************)
(* file_or_dir_name_to_date for the default dated_regex ^.*%Y%m%d.*$ :     *)
(* the substituted regex is ^.*(\d{4})(\d{2})(\d{2}).*$ and the body used  *)
(* by the ambiguity check is \d{4}\d{2}\d{2}.                              *)
(***************************************************************************)
IsDigit(c) == c \in 0..9

\* eight digits start at position p of name
DigitsAt(name, p) ==
    /\ p >= 1
    /\ p + 7 <= Len(name)
    /\ \A i \in p..(p + 7) : IsDigit(name[i])

\* re.findall(body, name): the non-overlapping matches, scanned from the left
RECURSIVE FindAllFrom(_, _)
FindAllFrom(name, p) ==
    IF p + 7 > Len(name) THEN {}
    ELSE IF DigitsAt(name, p)
         THEN {SubSeq(name, p, p + 7)} \cup FindAllFrom(name, p + 8)
         ELSE FindAllFrom(name, p + 1)

FindAll(name) == FindAllFrom(name, 1)

\* utils.py:20-21: the proper prefixes, the proper suffixes and the name
Substrings(name) ==
    {SubSeq(name, 1, i) : i \in 1..(Len(name) - 1)}
        \cup {SubSeq(name, i + 1, Len(name)) : i \in 1..(Len(name) - 1)}
        \cup {name}

filename_is_ambiguous_for_dated_regex(name) ==
    Cardinality(UNION {FindAll(sub) : sub \in Substrings(name)}) > 1

Num2(a, b) == 10 * a + b

\* the three groups of the anchored regex: the leading .* is greedy, so the
\* groups are the last eight consecutive digits of the name
MatchPositions(name) == {p \in 1..Len(name) : DigitsAt(name, p)}

LastMatch(name) ==
    CHOOSE p \in MatchPositions(name) : \A q \in MatchPositions(name) : q <= p

GroupsToDate(name, p) ==
    <<100 * Num2(name[p], name[p + 1]) + Num2(name[p + 2], name[p + 3]),
      Num2(name[p + 4], name[p + 5]),
      Num2(name[p + 6], name[p + 7])>>

NoDate == <<0, 0, 0>>
Ambiguous == <<0, 0, 1>>

\* mutation of file_or_dir_name_to_date: the comparison with latest_date is lost
file_or_dir_name_to_date_nolimit(name, h) ==
    IF filename_is_ambiguous_for_dated_regex(name) THEN Ambiguous
    ELSE IF MatchPositions(name) = {} THEN NoDate
    ELSE LET dt == GroupsToDate(name, LastMatch(name))
         IN  IF ValidDate(dt[1], dt[2], dt[3]) THEN dt ELSE NoDate

\* utils.py:36-77; Ambiguous stands for the raised ValueError, NoDate for None
file_or_dir_name_to_date(name, h) ==
    IF filename_is_ambiguous_for_dated_regex(name) THEN Ambiguous
    ELSE IF MatchPositions(name) = {} THEN NoDate
    ELSE LET dt == GroupsToDate(name, LastMatch(name))
         IN  IF ValidDate(dt[1], dt[2], dt[3]) /\ DateLE(dt, LatestDate(h))
             THEN dt
             ELSE NoDate

(***************************************************************************)
(* file_or_dir_name_to_date for a dated_regex given as an argument.  The   *)
(* regexes are ^ W pre %a G %b G %c post W $ with %a %b %c the three       *)
(* directives in some order, pre and post literal text, G either the       *)
(* literal text sep or .* and W either empty or .* : keys is the order of  *)
(* the directives, gap tells that G is .* and open that W is .*            *)
(* Characters are numbers: 0..9 the digits, 10 the dash, 11 the dot.       *)
(***************************************************************************)
DefaultRegex ==
    [keys |-> <<"Y", "m", "d">>, sep |-> <<>>, gap |-> FALSE, open |-> TRUE,
     pre |-> <<>>, post |-> <<>>]

\* utils.py:54-58: %Y becomes (\d{4}), %m and %d become (\d{2})
Width(key) == IF key = "Y" THEN 4 ELSE 2

\* w digits start at position p of name
DigitRun(name, p, w) ==
    /\ p >= 1
    /\ p + w - 1 <= Len(name)
    /\ \A j \in 0..(w - 1) : IsDigit(name[p + j])

\* the literal text lit stands at position p of name
LiteralAt(name, p, lit) ==
    /\ p >= 1
    /\ p + Len(lit) - 1 <= Len(name)
    /\ \A j \in 1..Len(lit) : name[p + j - 1] = lit[j]

\* the position after group i of a match m, m being where the groups start
GroupEnd(regex, m, i) == m[i] + Width(regex.keys[i])

\* utils.py:22-23: the trimmed regex runs from the first ( to the last ) of the
\* substituted regex, so it is \d..G\d..G\d.. without pre, post and W; the ways
\* in which it matches name from position p on
BodyMatches(regex, name, p) ==
    IF ~DigitRun(name, p, Width(regex.keys[1])) THEN {}
    ELSE IF regex.gap
    THEN {m \in {<<p, p2, p3>> : p2 \in (p + 2)..Len(name),
                                 p3 \in (p + 4)..Len(name)} :
             /\ m[2] >= GroupEnd(regex, m, 1)
             /\ m[3] >= GroupEnd(regex, m, 2)
             /\ DigitRun(name, m[2], Width(regex.keys[2]))
             /\ DigitRun(name, m[3], Width(regex.keys[3]))}
    ELSE LET p2 == p + Width(regex.keys[1]) + Len(regex.sep)
             p3 == p2 + Width(regex.keys[2]) + Len(regex.sep)
         IN  IF /\ LiteralAt(name, p2 - Len(regex.sep), regex.sep)
                /\ DigitRun(name, p2, Width(regex.keys[2]))
                /\ LiteralAt(name, p3 - Len(regex.sep), regex.sep)
                /\ DigitRun(name, p3, Width(regex.keys[3]))
             THEN {<<p, p2, p3>>}
             ELSE {}

\* the match a backtracking regex engine returns: every .* is greedy and the
\* leftmost .* is served first
Greedy(ms) ==
    CHOOSE m \in ms : \A n \in ms :
        \/ n[1] < m[1]
        \/ n[1] = m[1] /\ n[2] < m[2]
        \/ n[1] = m[1] /\ n[2] = m[2] /\ n[3] <= m[3]

\* re.findall(trimmed_regex, name) (utils.py:28): the non-overlapping matches
\* scanned from the left, each given by where its groups start
RECURSIVE FindAllBody(_, _, _)
FindAllBody(regex, name, p) ==
    IF p > Len(name) THEN {}
    ELSE LET ms == BodyMatches(regex, name, p)
         IN  IF ms = {} THEN FindAllBody(regex, name, p + 1)
             ELSE {Greedy(ms)}
                    \cup FindAllBody(regex, name, GroupEnd(regex, Greedy(ms), 3))

\* the text of a match: the trimmed regex has no group left, so findall returns
\* the whole of what matched
MatchText(regex, name, m) == SubSeq(name, m[1], GroupEnd(regex, m, 3) - 1)

\* the digits of group i of a match
GroupText(regex, name, m, i) == SubSeq(name, m[i], GroupEnd(regex, m, i) - 1)

\* utils.py:12-33 with the regex as an argument
filename_is_ambiguous(regex, name) ==
    Cardinality(UNION {{MatchText(regex, sub, m) :
                            m \in FindAllBody(regex, sub, 1)} :
                       sub \in Substrings(name)}) > 1

\* the ways in which the whole substituted regex matches name
AnchoredMatches(regex, name) ==
    {m \in UNION {BodyMatches(regex, name, p) : p \in 1..Len(name)} :
        /\ LiteralAt(name, m[1] - Len(regex.pre), regex.pre)
        /\ LiteralAt(name, GroupEnd(regex, m, 3), regex.post)
        /\ regex.open
              \/ /\ m[1] - Len(regex.pre) = 1
                 /\ GroupEnd(regex, m, 3) + Len(regex.post) = Len(name) + 1}

RECURSIVE DigitsValue(_)
DigitsValue(digits) ==
    IF digits = <<>> THEN 0
    ELSE 10 * DigitsValue(SubSeq(digits, 1, Len(digits) - 1)) + digits[Len(digits)]

\* utils.py:51: the directives in the order in which the regex has them
StrptimeKeys(regex) == regex.keys

\* utils.py:72-74: strptime of the three groups with the format made of keys
Strptime(regex, name, m) ==
    LET keys == StrptimeKeys(regex)
        Of(key) == DigitsValue(GroupText(regex, name, m,
                                         CHOOSE i \in 1..3 : keys[i] = key))
    IN  <<Of("Y"), Of("m"), Of("d")>>

\* utils.py:36-77 with the regex as an argument
file_or_dir_name_to_date_regex(name, regex, h) ==
    IF filename_is_ambiguous(regex, name) THEN Ambiguous
    ELSE IF AnchoredMatches(regex, name) = {} THEN NoDate
    ELSE LET dt == Strptime(regex, name, Greedy(AnchoredMatches(regex, name)))
         IN  IF ValidDate(dt[1], dt[2], dt[3]) /\ DateLE(dt, LatestDate(h))
             THEN dt
             ELSE NoDate

\* the digits of n, zero-padded to width w
RECURSIVE Padded(_, _)
Padded(n, w) ==
    IF w = 0 THEN <<>> ELSE Padded(n \div 10, w - 1) \o <<n % 10>>

\* date.strftime of the directives and the literal text of the regex, with
\* fill where the regex has .* between two directives; the years are 1000 and
\* later, which strftime writes with four digits
StrftimeRegex(regex, fill, dt) ==
    LET Field(key) == IF key = "Y" THEN Padded(dt[1], 4)
                      ELSE IF key = "m" THEN Padded(dt[2], 2)
                      ELSE Padded(dt[3], 2)
        g == IF regex.gap THEN fill ELSE regex.sep
    IN  regex.pre \o Field(regex.keys[1]) \o g \o Field(regex.keys[2])
            \o g \o Field(regex.keys[3]) \o regex.post

(***************************************************************************)
(* The two file systems.                                                   *)
(*                                                                         *)
(* The source root holds three date-named groups.  In directories mode a   *)
(* group is a directory <root>/<group> holding the data files named        *)
(* DataChar(f); in files mode the files of a group are the root entries    *)
(* <group><DataChar(f)>.                                                   *)
(***************************************************************************)
E1 == <<2, 0, 2, 4, 0, 2, 2, 8>>
E2 == <<2, 0, 2, 4, 0, 2, 2, 9>>
E3 == <<2, 9, 9, 9, 1, 2, 3, 1>>

\* a second name of the date of E1, and two names that read as two dates
E4 == <<2, 0, 2, 4, 0, 2, 2, 8, 13>>
E5 == <<2, 0, 2, 4, 0, 2, 2, 8, 1>>
E6 == <<2, 0, 2, 4, 0, 2, 2, 9, 1>>

Entries == {E1, E2, E3, E4, E5, E6}

Keys == Entries \cup {Root}

Sessions == {1, 2}

\* the character that names data file f
DataChar(f) == 9 + f

\* the basename of data file f of group e at the root (files mode)
FileName(e, f) == e \o <<DataChar(f)>>

Tree(contents) ==
    [f \in Files |-> IF f <= Len(contents) THEN contents[f] ELSE Absent]

NoFiles == Tree(<<>>)

\* no group holds a file
Nothing == [e \in Entries |-> NoFiles]

\* the initial trees: src and dst map a group to its files, dirs and ddirs are
\* the item directories that exist (directories mode)
WorldFresh ==
    [src   |-> (E1 :> Tree(<< <<1>>, <<>> >>)) @@ (E2 :> Tree(<< <<2>> >>))
                 @@ (E3 :> Tree(<< <<1>> >>)) @@ Nothing,
     dirs  |-> {E1, E2, E3},
     dst   |-> Nothing,
     ddirs |-> {}]

\* file 1 of E1 is already on the remote, E2 is an empty directory
WorldResume ==
    [src   |-> (E1 :> Tree(<< <<1>>, <<2>> >>)) @@ (E2 :> NoFiles)
                 @@ (E3 :> Tree(<< <<2>> >>)) @@ Nothing,
     dirs  |-> {E1, E2, E3},
     dst   |-> (E1 :> Tree(<< <<1>> >>)) @@ Nothing,
     ddirs |-> {E1}]

\* a single item, and a remote directory that holds a file of somebody else
WorldExtra ==
    [src   |-> (E1 :> Tree(<< <<2>> >>)) @@ Nothing,
     dirs  |-> {E1},
     dst   |-> (E1 :> [f \in Files |-> IF f = MaxFiles THEN <<1>> ELSE Absent])
                 @@ Nothing,
     ddirs |-> {E1}]

\* two items of one date, the first an empty directory
WorldTwin ==
    [src   |-> (E4 :> Tree(<< <<2>> >>)) @@ Nothing,
     dirs  |-> {E1, E4},
     dst   |-> Nothing,
     ddirs |-> {}]

\* an item with a plain name next to two items with ambiguous names
WorldAmbiguous ==
    [src   |-> (E1 :> Tree(<< <<1>> >>)) @@ (E5 :> Tree(<< <<1>> >>))
                 @@ (E6 :> Tree(<< <<2>> >>)) @@ Nothing,
     dirs  |-> {E1, E5, E6},
     dst   |-> Nothing,
     ddirs |-> {}]

Worlds == {WorldFresh, WorldResume, WorldExtra, WorldTwin, WorldAmbiguous}

Outcomes == {"successful", "failed", "aborted", "no files found"}

VARIABLES
    cfg,          \* variant, remove_files_after_upload, now.hour, the calls of
                  \* run() per session, whether put can fail and whether
                  \* should_abort_upload can return true
    active,       \* the sessions (processes calling run()) of this behaviour
    world,        \* the trees and meta files the behaviour started from
    srcDir,       \* the item directories that exist under the source root
    src,          \* the data files of the source
    metaFile,     \* upload-meta.json per directory: the dumped list, or NoMeta
    lockFile,     \* .do-not-touch per directory: its inode, 0 when there is no file
    flock,        \* per inode: the session holding the OS lock on it, 0 for none
    dstDir,       \* the item directories that exist under the destination root
    dst,          \* the data files of the destination
    dstSentinel,  \* the remote .do-not-touch files that exist
    interf,       \* writes of other parties to the remote so far
    ss,           \* the sessions: position in run() and its local variables
    probe         \* a single call of a function on its own (the date parser,
                  \* the validator, the screener): its arguments and result

vars ==
    <<ss, probe, interf, cfg, active, world, srcDir, src, metaFile, lockFile,
      flock, dstDir, dst, dstSentinel>>

fsvars == <<srcDir, src, metaFile, lockFile, flock, dstDir, dst, dstSentinel>>

\* amb is the list of paths in the ValueError of get_src_dates; polledSince
\* tells that should_abort_upload was asked since the last item returned,
\* unpolled that a file of the current item was put and it was not asked since,
\* stale holds the directories whose remote .do-not-touch this session failed
\* to remove, and debris the directories that held a .do-not-touch which no
\* process had locked when this run() was called
SessionInit ==
    [pc |-> "idle", run |-> 0, plan |-> <<>>, grp |-> <<>>, cur |-> Root,
     todo |-> <<>>, up |-> <<>>, nsrc |-> 0, ret |-> "none", exc |-> FALSE,
     fd |-> 0, out |-> [e \in Entries |-> "none"],
     nput |-> 0, putset |-> {}, sync0 |-> {}, verok |-> {},
     guardDue |-> FALSE, prevOK |-> FALSE, touched |-> FALSE,
     amb |-> {}, polledSince |-> TRUE, unpolled |-> FALSE, stale |-> {},
     debris |-> {}]

InitWith(sessions, runs, worlds, faults, aborts) ==
    /\ \E v \in {"directories", "files"}, r \in BOOLEAN, h \in Hours :
         cfg = [variant |-> v, remove |-> r, hour |-> h, runs |-> runs,
                faults |-> faults, aborts |-> aborts]
    /\ active = sessions
    /\ \E w \in worlds :
         /\ src = w.src
         /\ srcDir = w.dirs
         /\ dst = w.dst
         /\ dstDir = w.ddirs
         \* a directory without data files may hold an upload-meta.json that
         \* an earlier process left there
         /\ \E left \in SUBSET {e \in w.dirs : w.src[e] = NoFiles} :
              metaFile = [k \in Keys |-> IF k \in left THEN <<>> ELSE NoMeta]
         /\ world = [src |-> w.src, dirs |-> w.dirs, dst |-> w.dst,
                     ddirs |-> w.ddirs, meta |-> metaFile]
    /\ lockFile = [k \in Keys |-> 0]
    /\ flock = [i \in 1..MaxIno |-> 0]
    /\ dstSentinel = {}
    /\ interf = 0
    /\ ss = [s \in Sessions |-> SessionInit]

\* no call of the parser on its own
NoProbe ==
    [kind |-> "none", name |-> <<>>, regex |-> DefaultRegex, date |-> NoDate,
     out |-> NoDate, applied |-> FALSE, arg |-> <<>>, res |-> <<>>]

Init == InitWith({1}, MaxRuns, Worlds, TRUE, TRUE) /\ probe = NoProbe

(***************************************************************************)
(* Helpers of the operations.                                              *)
(***************************************************************************)
Perms(S) ==
    {p \in [1..Cardinality(S) -> S] : \A x \in S : \E i \in DOMAIN p : p[i] = x}

Min(a, b) == IF a <= b THEN a ELSE b

\* a < b for strings (sequences of character codes)
LexLess(a, b) ==
    \/ \E i \in 1..Min(Len(a), Len(b)) :
         /\ a[i] < b[i]
         /\ \A j \in 1..(i - 1) : a[j] = b[j]
    \/ /\ Len(a) < Len(b)
       /\ \A j \in 1..Len(a) : a[j] = b[j]

\* the basename of data file x = <<group, f>> as os.listdir returns it
BaseName(x) ==
    IF cfg.variant = "files" THEN FileName(x[1], x[2]) ELSE <<DataChar(x[2])>>

\* mutation of Sorted: the files in descending order
RECURSIVE SortedDescending(_)
SortedDescending(S) ==
    IF S = {} THEN <<>>
    ELSE LET m == CHOOSE x \in S :
                    \A y \in S \ {x} : LexLess(BaseName(y), BaseName(x))
         IN  <<m>> \o SortedDescending(S \ {m})

\* sorted(S) for a set of data files
RECURSIVE Sorted(_)
Sorted(S) ==
    IF S = {} THEN <<>>
    ELSE LET m == CHOOSE x \in S :
                    \A y \in S \ {x} : LexLess(BaseName(x), BaseName(y))
         IN  <<m>> \o Sorted(S \ {m})

\* date.strftime("%Y%m%d")
Strftime(dt) ==
    <<dt[1] \div 1000, (dt[1] \div 100) % 10, (dt[1] \div 10) % 10, dt[1] % 10,
      dt[2] \div 10, dt[2] % 10, dt[3] \div 10, dt[3] % 10>>

\* re.match("^.*" + sub + ".*$", name)
Contains(name, sub) ==
    \E p \in 1..(Len(name) - Len(sub) + 1) :
        SubSeq(name, p, p + Len(sub) - 1) = sub

\* floor(10 * k / n), the decile of the progress k / n (client.py:193-194)
Floor10(k, n) == (10 * k) \div n

\* hashlib.md5(bytes).hexdigest()
MD5(bytes) == [md5 |-> bytes]

RECURSIVE ConcatFrom(_, _)
ConcatFrom(tree, f) ==
    IF f > MaxFiles THEN <<>>
    ELSE (IF tree[f] = Absent THEN <<>> ELSE tree[f]) \o ConcatFrom(tree, f + 1)

\* checksum.py:9-32: one hasher is fed the contents of the regular files of the
\* directory in the order of their sorted names
get_dir_checksum(tree) == MD5(ConcatFrom(tree, 1))

\* mutation of directory_checksums_match: every comparison succeeds
directory_checksums_match_always(e) == TRUE

\* client.py:103
directory_checksums_match(e) ==
    get_dir_checksum(src[e]) = get_dir_checksum(dst[e])

\* every data file of group e is on the remote with the same size and MD5
RemoteHasAll(e) ==
    \A f \in Files :
        src[e][f] # Absent =>
            /\ dst[e][f] # Absent
            /\ Len(dst[e][f]) = Len(src[e][f])
            /\ MD5(dst[e][f]) = MD5(src[e][f])

\* the data files of group e that are in sync on the remote
InSync(e) ==
    {<<e, f>> : f \in {g \in Files : src[e][g] # Absent /\ dst[e][g] = src[e][g]}}

\* what the path of the directory that key k names is on the local disk
PathKind(k) ==
    IF k = Root \/ k \in srcDir THEN "directory" ELSE "missing"

\* os.path.isfile(src_dir_path)
PathIsFile(k) == PathKind(k) = "file"

\* mutation of UploadMetaInit: the upload-meta.json of the directory is read
UploadMetaInitReadsFile(k) ==
    IF metaFile[k] # NoMeta THEN metaFile[k] ELSE <<>>

\* utils.py:134-154: the uploaded_files a new UploadMeta starts with
UploadMetaInit(k) ==
    IF PathIsFile(k)
    THEN (IF metaFile[k] # NoMeta THEN metaFile[k] ELSE <<>>)
    ELSE <<>>

\* filelock.FileLock(path): a new lock object, holding no file descriptor
NewFileLock(k) == [lock_file |-> k, lock_file_fd |-> 0]

\* mutation of IsLocked: a lock file that exists counts as locked
IsLockedWhenFileExists(lock) == lockFile[lock.lock_file] # 0

\* filelock.FileLock.is_locked: whether this object holds the lock
IsLocked(lock) == lock.lock_file_fd # 0

\* the lock files glob.glob finds under the source root (client.py:262-264)
GlobDoNotTouch ==
    {k \in Keys : lockFile[k] # 0 /\ (k = Root \/ k \in srcDir)}

\* the directory whose .do-not-touch session s locks (client.py:177-182, 236-241)
LockKey(s) == IF cfg.variant = "files" THEN Root ELSE ss[s].cur

\* an inode number that no path and no descriptor refers to
FreeInos ==
    {i \in 1..MaxIno :
        /\ \A k \in Keys : lockFile[k] # i
        /\ \A s \in Sessions : ss[s].fd # i
        /\ flock[i] = 0}

\* what should_abort_upload() can return; the default callback returns False
AbortAnswers == IF cfg.aborts THEN BOOLEAN ELSE {FALSE}

Set(s, r) == ss' = [ss EXCEPT ![s] = r]

\* the locals of the per-item function are dropped when it returns
Cleared(r) ==
    [r EXCEPT !.cur = Root, !.todo = <<>>, !.up = <<>>, !.nsrc = 0,
              !.ret = "none", !.exc = FALSE, !.unpolled = FALSE]

\* the per-item function returns outcome to run() (client.py:290-299)
Returned(r, outcome) ==
    [Cleared(r) EXCEPT
        !.out = [r.out EXCEPT ![r.cur] = outcome],
        !.polledSince = FALSE,
        !.pc = IF cfg.variant = "directories" /\ outcome # "aborted"
               THEN "paths" ELSE "poll"]

\* an exception leaves run()
Raised(r) ==
    [Cleared(r) EXCEPT
        !.out = IF r.cur \in Entries THEN [r.out EXCEPT ![r.cur] = "raised"]
                ELSE r.out,
        !.pc = "raised", !.plan = <<>>, !.grp = <<>>]

(***************************************************************************)
(* DailyTransferClient.run                                                 *)
(***************************************************************************)
ParsedDate(name) == file_or_dir_name_to_date(name, cfg.hour)

\* the source holds something for group e
ItemPresent(e) ==
    IF cfg.variant = "directories" THEN e \in srcDir
    ELSE \E f \in Files : src[e][f] # Absent

\* the last run() of session s returned and reported successful for every item
\* the source holds now
PreviousRunAllSuccessful(s) ==
    /\ ss[s].pc = "done"
    /\ \E e \in Entries : ss[s].out[e] = "successful"
    /\ \A e \in Entries :
         (ItemPresent(e) /\ ParsedDate(e) \notin {NoDate, Ambiguous})
            => ss[s].out[e] = "successful"

\* run() is called (client.py:271)
StartRun(s) ==
    /\ ss[s].pc \in {"idle", "done", "raised"}
    /\ ss[s].run < cfg.runs
    /\ Set(s, [SessionInit EXCEPT
            !.pc = "check",
            !.run = ss[s].run + 1,
            !.fd = ss[s].fd,
            !.stale = ss[s].stale,
            !.debris = {k \in GlobDoNotTouch : flock[lockFile[k]] = 0},
            !.prevOK = PreviousRunAllSuccessful(s)])
    /\ UNCHANGED <<probe, cfg, active, world, fsvars, interf>>

\* block_if_process_is_already_running (client.py:256-269)
BlockIfRunning(s) ==
    /\ ss[s].pc = "check"
    /\ LET found == \E k \in GlobDoNotTouch : IsLocked(NewFileLock(k))
           held  == \E k \in GlobDoNotTouch : flock[lockFile[k]] \notin {0, s}
       IN  Set(s, IF found THEN Raised(ss[s])
                  ELSE [ss[s] EXCEPT !.pc = "list", !.guardDue = held])
    /\ UNCHANGED <<probe, cfg, active, world, fsvars, interf>>

\* the basenames os.listdir(src_path) returns that get_src_dates considers
ConsideredNames ==
    IF cfg.variant = "directories" THEN srcDir
    ELSE {FileName(x[1], x[2]) :
            x \in {y \in Entries \X Files : src[y[1]][y[2]] # Absent}}

\* mutation of AmbiguousPaths: the ValueError of the parser is swallowed
AmbiguousPathsDropped(names) == {}

\* utils.py:108-109: the entries for which the parser raised ValueError
AmbiguousPaths(names) == {n \in names : ParsedDate(n) = Ambiguous}

\* get_src_dates (utils.py:80-120) and the start of the loop over its result;
\* the dict keeps the order in which os.listdir returned the entries
GetSrcDates(s) ==
    /\ ss[s].pc = "list"
    /\ LET names == ConsideredNames
           ambiguous_paths == AmbiguousPaths(names)
           dates == {ParsedDate(n) : n \in names} \ {NoDate, Ambiguous}
           PathsOf(dt) == {n \in names : ParsedDate(n) = dt}
       IN  IF ambiguous_paths # {}
           THEN Set(s, [Raised(ss[s]) EXCEPT !.amb = ambiguous_paths])
           ELSE \E order \in Perms(dates) :
                \E ps \in [dates -> UNION {Perms(PathsOf(dt)) : dt \in dates}] :
                  /\ \A dt \in dates : ps[dt] \in Perms(PathsOf(dt))
                  /\ Set(s, [ss[s] EXCEPT
                          !.pc = "dates",
                          !.plan = [i \in 1..Cardinality(dates) |->
                                      [date |-> order[i],
                                       paths |-> IF cfg.variant = "directories"
                                                 THEN ps[order[i]] ELSE <<>>]]])
    /\ UNCHANGED <<probe, cfg, active, world, fsvars, interf>>

\* for date, paths in src_dates.items() (client.py:284-299)
NextDate(s) ==
    /\ ss[s].pc = "dates"
    /\ Set(s, IF ss[s].plan = <<>>
              THEN [ss[s] EXCEPT !.pc = "done"]
              ELSE [ss[s] EXCEPT
                      !.plan = Tail(ss[s].plan),
                      !.grp = Head(ss[s].plan).paths,
                      !.cur = IF cfg.variant = "files"
                              THEN Strftime(Head(ss[s].plan).date) ELSE Root,
                      !.pc = IF cfg.variant = "files" THEN "files_start"
                             ELSE "paths"])
    /\ UNCHANGED <<probe, cfg, active, world, fsvars, interf>>

\* for path in paths (client.py:289-292)
NextPath(s) ==
    /\ ss[s].pc = "paths"
    /\ Set(s, IF ss[s].grp = <<>>
              THEN [ss[s] EXCEPT !.pc = "poll"]
              ELSE [ss[s] EXCEPT
                      !.grp = Tail(ss[s].grp),
                      !.cur = Head(ss[s].grp),
                      !.pc = "dir_start"])
    /\ UNCHANGED <<probe, cfg, active, world, fsvars, interf>>

\* if self.callbacks.should_abort_upload(): break (client.py:301-303)
PollBetweenDates(s) ==
    /\ ss[s].pc = "poll"
    /\ \E should_abort \in AbortAnswers :
         Set(s, [ss[s] EXCEPT
                   !.pc = IF should_abort THEN "done" ELSE "dates",
                   !.polledSince = TRUE,
                   !.plan = IF should_abort THEN <<>> ELSE ss[s].plan,
                   !.grp = <<>>])
    /\ UNCHANGED <<probe, cfg, active, world, fsvars, interf>>

(***************************************************************************)
(* The per-item upload: __upload_date_directory and __upload_date_files    *)
(***************************************************************************)
Range(q) == {q[i] : i \in DOMAIN q}

\* mutation of Rmtree: the directory is left where it is
RmtreeKeepsDir(e) == UNCHANGED <<srcDir, src, metaFile, lockFile>>

\* shutil.rmtree(src_dir_path)
Rmtree(e) ==
    /\ srcDir' = srcDir \ {e}
    /\ src' = [src EXCEPT ![e] = NoFiles]
    /\ metaFile' = [metaFile EXCEPT ![e] = NoMeta]
    /\ lockFile' = [lockFile EXCEPT ![e] = 0]

\* __upload_date_directory up to the lock (client.py:125-174)
UploadDirStart(s) ==
    /\ ss[s].pc = "dir_start"
    /\ LET e == ss[s].cur
           meta == UploadMetaInit(e)
           src_files == {<<e, f>> : f \in {g \in Files : src[e][g] # Absent}}
           files_missing_in_dst == src_files \ Range(meta)
       IN  IF e \notin srcDir
           THEN /\ Set(s, Raised(ss[s]))
                /\ UNCHANGED fsvars
           ELSE IF src_files = {}
           THEN /\ Set(s, Returned(ss[s], "no files found"))
                /\ IF cfg.remove
                   THEN Rmtree(e)
                   ELSE UNCHANGED <<srcDir, src, metaFile, lockFile>>
                /\ UNCHANGED <<flock, dstDir, dst, dstSentinel>>
           ELSE /\ Set(s, [ss[s] EXCEPT
                        !.pc = "enter_open",
                        !.up = meta,
                        !.todo = Sorted(files_missing_in_dst),
                        !.nsrc = Cardinality(src_files),
                        !.sync0 = @ \cup InSync(e),
                        !.touched = TRUE])
                /\ dstDir' = dstDir \cup {e}
                /\ UNCHANGED <<srcDir, src, metaFile, lockFile, flock, dst,
                               dstSentinel>>
    /\ UNCHANGED <<probe, cfg, active, world, interf>>

\* __upload_date_files up to the lock (client.py:221-233)
UploadFilesStart(s) ==
    /\ ss[s].pc = "files_start"
    /\ LET file_regex == ss[s].cur
           meta == UploadMetaInit(Root)
           src_files == {x \in Entries \X Files :
                            /\ src[x[1]][x[2]] # Absent
                            /\ Contains(FileName(x[1], x[2]), file_regex)}
           files_missing_in_dst == src_files \ Range(meta)
       IN  Set(s, [ss[s] EXCEPT
                !.pc = "enter_open",
                !.up = meta,
                !.todo = Sorted(files_missing_in_dst),
                !.nsrc = Cardinality(src_files),
                !.sync0 = @ \cup {x \in src_files :
                                    dst[x[1]][x[2]] = src[x[1]][x[2]]}])
    /\ UNCHANGED <<probe, cfg, active, world, fsvars, interf>>

(***************************************************************************)
(* TwinFileLock (utils.py:202-242).  FileLock.acquire(timeout=0) opens the *)
(* lock file, creating it when there is none, and then tries flock() on    *)
(* the descriptor once; release() unlocks and closes the descriptor.       *)
(***************************************************************************)
EnterOpen(s) ==
    /\ ss[s].pc = "enter_open"
    /\ FreeInos # {}
    /\ LET k == LockKey(s)
           ino == IF lockFile[k] # 0 THEN lockFile[k]
                  ELSE CHOOSE i \in FreeInos : \A j \in FreeInos : i <= j
       IN  /\ lockFile' = [lockFile EXCEPT ![k] = ino]
           /\ srcDir' = IF k = Root THEN srcDir ELSE srcDir \cup {k}
           /\ Set(s, [ss[s] EXCEPT !.pc = "enter_flock", !.fd = ino,
                                   !.touched = TRUE])
    /\ UNCHANGED <<probe, cfg, active, world, src, metaFile, flock, dstDir, dst,
                   dstSentinel, interf>>

\* mutation of EnterFlock: when the lock is held, __exit__ runs all the same
EnterFlockFailureExits(s) ==
    /\ ss[s].pc = "enter_flock"
    /\ IF flock[ss[s].fd] = 0
       THEN /\ flock' = [flock EXCEPT ![ss[s].fd] = s]
            /\ Set(s, [ss[s] EXCEPT !.pc = "enter_touch"])
       ELSE /\ UNCHANGED flock
            /\ Set(s, [ss[s] EXCEPT !.pc = "exit_rm", !.exc = TRUE])
    /\ UNCHANGED <<probe, cfg, active, world, srcDir, src, metaFile, lockFile,
                   dstDir, dst, dstSentinel, interf>>

\* fcntl.flock(fd, LOCK_EX | LOCK_NB); filelock.Timeout when it is held
EnterFlock(s) ==
    /\ ss[s].pc = "enter_flock"
    /\ IF flock[ss[s].fd] = 0
       THEN /\ flock' = [flock EXCEPT ![ss[s].fd] = s]
            /\ Set(s, [ss[s] EXCEPT !.pc = "enter_touch"])
       ELSE /\ UNCHANGED flock
            /\ Set(s, [Raised(ss[s]) EXCEPT
                         !.fd = IF flock[ss[s].fd] = s THEN ss[s].fd ELSE 0])
    /\ UNCHANGED <<probe, cfg, active, world, srcDir, src, metaFile, lockFile, dstDir,
                   dst, dstSentinel, interf>>

\* Connection.run(command) returns, or raises: the command exited with an
\* error or the connection is gone
RunResults == IF cfg.faults THEN {"ok", "error"} ELSE {"ok"}

\* self.remote_connection.run(f"touch {self.dst_filepath}") (utils.py:227);
\* an exception here leaves __enter__, and __exit__ is not called
EnterTouch(s) ==
    /\ ss[s].pc = "enter_touch"
    /\ \E result \in RunResults :
         IF result = "ok"
         THEN /\ dstSentinel' = dstSentinel \cup {LockKey(s)}
              /\ Set(s, [ss[s] EXCEPT !.pc = "loop"])
         ELSE /\ UNCHANGED dstSentinel
              /\ Set(s, Raised(ss[s]))
    /\ UNCHANGED <<probe, cfg, active, world, srcDir, src, metaFile, lockFile, flock,
                   dstDir, dst, interf>>

\* mutation of ExitRm: the remote .do-not-touch is not removed
ExitRmKeepsSentinel(s) ==
    /\ ss[s].pc = "exit_rm"
    /\ Set(s, [ss[s] EXCEPT !.pc = "exit_release"])
    /\ UNCHANGED <<probe, cfg, active, world, fsvars, interf>>

\* self.remote_connection.run(f"rm -rf {self.dst_filepath}") (utils.py:234)
\* an exception here leaves __exit__ before release() is reached
ExitRm(s) ==
    /\ ss[s].pc = "exit_rm"
    /\ \E result \in RunResults :
         IF result = "ok"
         THEN /\ dstSentinel' = dstSentinel \ {LockKey(s)}
              /\ Set(s, [ss[s] EXCEPT !.pc = "exit_release",
                                      !.stale = @ \ {LockKey(s)}])
         ELSE /\ UNCHANGED dstSentinel
              /\ Set(s, [Raised(ss[s]) EXCEPT
                           !.stale = @ \cup {LockKey(s)}])
    /\ UNCHANGED <<probe, cfg, active, world, srcDir, src, metaFile, lockFile, flock,
                   dstDir, dst, interf>>

\* self.src_filelock.release() (utils.py:240)
ExitRelease(s) ==
    /\ ss[s].pc = "exit_release"
    /\ flock' = [flock EXCEPT ![ss[s].fd] = 0]
    /\ Set(s, [ss[s] EXCEPT !.pc = "exit_remove", !.fd = 0])
    /\ UNCHANGED <<probe, cfg, active, world, srcDir, src, metaFile, lockFile, dstDir,
                   dst, dstSentinel, interf>>

\* mutation of AfterExit: an aborted item goes on to the removal of its source
AfterExitAbortedRemoves(r) ==
    IF r.exc THEN Raised(r)
    ELSE IF cfg.variant = "directories" /\ r.ret \in {"successful", "aborted"}
         THEN [r EXCEPT !.pc = "remove_source"]
         ELSE Returned(r, r.ret)

\* what follows the with statement, or the exception or return that left it
AfterExit(r) ==
    IF r.exc THEN Raised(r)
    ELSE IF cfg.variant = "directories" /\ r.ret = "successful"
         THEN [r EXCEPT !.pc = "remove_source"]
         ELSE Returned(r, r.ret)

\* mutation of ExitRemove: the local .do-not-touch is left behind
ExitRemoveKeepsFile(s) ==
    /\ ss[s].pc = "exit_remove"
    /\ Set(s, AfterExit(ss[s]))
    /\ UNCHANGED <<probe, cfg, active, world, fsvars, interf>>

\* if os.path.isfile(self.src_filepath): os.remove(...) (utils.py:241-242)
ExitRemove(s) ==
    /\ ss[s].pc = "exit_remove"
    /\ lockFile' = [lockFile EXCEPT ![LockKey(s)] = 0]
    /\ Set(s, AfterExit(ss[s]))
    /\ UNCHANGED <<probe, cfg, active, world, srcDir, src, metaFile, flock, dstDir, dst,
                   dstSentinel, interf>>

\* BaseFileLock.__del__: a lock object that was left without release() is
\* collected at some time after the exception has left run(); it unlocks and
\* closes its descriptor, the lock file stays
Finalize(s) ==
    /\ ss[s].pc = "raised"
    /\ ss[s].fd # 0
    /\ flock' = [flock EXCEPT ![ss[s].fd] = IF @ = s THEN 0 ELSE @]
    /\ Set(s, [ss[s] EXCEPT !.fd = 0])
    /\ UNCHANGED <<probe, cfg, active, world, srcDir, src, metaFile, lockFile, dstDir,
                   dst, dstSentinel, interf>>

(***************************************************************************)
(* The body of the with statement.  transfer_process.put either copies the *)
(* file and returns, or raises: then the remote file is as it was, or it   *)
(* holds a part of the data.                                               *)
(***************************************************************************)
PutResults ==
    IF cfg.faults THEN {"copied", "error", "error_partial"} ELSE {"copied"}


Truncated(c) == IF c = <<>> THEN c ELSE SubSeq(c, 1, Len(c) - 1)

\* the remote file after put(local, remote) with the given result
PutWrites(local, remote, result) ==
    IF result = "copied" THEN local
    ELSE IF result = "error_partial" THEN Truncated(local)
    ELSE remote

\* one iteration of the loop of __upload_date_directory (client.py:187-198)
PutFileDir(s) ==
    /\ ss[s].pc = "loop"
    /\ cfg.variant = "directories"
    /\ ss[s].todo # <<>>
    /\ \E result \in PutResults, should_abort \in AbortAnswers :
         LET x == Head(ss[s].todo)
             e == x[1]
             f == x[2]
             uploaded == Append(ss[s].up, x)
             polled == Floor10(Len(uploaded), ss[s].nsrc)
                           # Floor10(Len(ss[s].up), ss[s].nsrc)
         IN  IF src[e][f] = Absent \/ result # "copied"
             THEN /\ dst' = IF src[e][f] = Absent THEN dst
                            ELSE [dst EXCEPT ![e][f] =
                                     PutWrites(src[e][f], dst[e][f], result)]
                  /\ Set(s, [ss[s] EXCEPT !.pc = "exit_rm", !.exc = TRUE])
                  /\ UNCHANGED metaFile
             ELSE /\ dst' = [dst EXCEPT ![e][f] = src[e][f]]
                  /\ metaFile' = [metaFile EXCEPT ![e] = uploaded]
                  /\ Set(s, [ss[s] EXCEPT
                          !.up = uploaded,
                          !.nput = @ + 1,
                          !.putset = @ \cup {x},
                          !.unpolled = ~polled,
                          !.todo = IF polled /\ should_abort THEN <<>>
                                   ELSE Tail(ss[s].todo),
                          !.ret = IF polled /\ should_abort THEN "aborted"
                                  ELSE "none",
                          !.pc = IF polled /\ should_abort THEN "exit_rm"
                                 ELSE "loop"])
    /\ UNCHANGED <<probe, cfg, active, world, srcDir, src, lockFile, flock, dstDir,
                   dstSentinel, interf>>

\* mutation of PutFileFiles: a put that raised is tried again
PutFileFilesRetries(s) ==
    /\ ss[s].pc = "loop"
    /\ cfg.variant = "files"
    /\ ss[s].todo # <<>>
    /\ \E result \in PutResults :
         LET x == Head(ss[s].todo)
             e == x[1]
             f == x[2]
         IN  /\ src[e][f] # Absent
             /\ dst' = [dst EXCEPT ![e][f] =
                          PutWrites(src[e][f], dst[e][f], result)]
             /\ Set(s, IF result = "copied"
                       THEN [ss[s] EXCEPT !.up = Append(@, x),
                                          !.nput = @ + 1,
                                          !.putset = @ \cup {x},
                                          !.todo = Tail(@)]
                       ELSE [ss[s] EXCEPT !.exc = TRUE])
    /\ UNCHANGED <<probe, cfg, active, world, srcDir, src, metaFile, lockFile,
                   flock, dstDir, dstSentinel, interf>>

\* one iteration of the loop of __upload_date_files (client.py:244-252)
PutFileFiles(s) ==
    /\ ss[s].pc = "loop"
    /\ cfg.variant = "files"
    /\ ss[s].todo # <<>>
    /\ \E result \in PutResults :
         LET x == Head(ss[s].todo)
             e == x[1]
             f == x[2]
             uploaded == Append(ss[s].up, x)
         IN  IF src[e][f] = Absent \/ result # "copied"
             THEN /\ dst' = IF src[e][f] = Absent THEN dst
                            ELSE [dst EXCEPT ![e][f] =
                                     PutWrites(src[e][f], dst[e][f], result)]
                  /\ Set(s, [ss[s] EXCEPT !.pc = "exit_rm", !.exc = TRUE])
                  /\ UNCHANGED <<src, metaFile>>
             ELSE /\ dst' = [dst EXCEPT ![e][f] = src[e][f]]
                  /\ src' = IF cfg.remove THEN [src EXCEPT ![e][f] = Absent]
                            ELSE src
                  /\ metaFile' = [metaFile EXCEPT ![Root] = uploaded]
                  /\ Set(s, [ss[s] EXCEPT
                          !.up = uploaded,
                          !.nput = @ + 1,
                          !.putset = @ \cup {x},
                          !.unpolled = TRUE,
                          !.todo = Tail(ss[s].todo)])
    /\ UNCHANGED <<probe, cfg, active, world, srcDir, lockFile, flock, dstDir,
                   dstSentinel, interf>>

\* the loop is through: __upload_date_files returns "successful" from inside
\* the with statement, __upload_date_directory goes on to the checksums
LoopDone(s) ==
    /\ ss[s].pc = "loop"
    /\ ss[s].todo = <<>>
    /\ Set(s, IF cfg.variant = "files"
              THEN [ss[s] EXCEPT !.pc = "exit_rm", !.ret = "successful"]
              ELSE [ss[s] EXCEPT !.pc = "verify"])
    /\ UNCHANGED <<probe, cfg, active, world, fsvars, interf>>

\* if not self.__directory_checksums_match(dir_name) (client.py:203-207)
VerifyChecksums(s) ==
    /\ ss[s].pc = "verify"
    /\ LET e == ss[s].cur
       IN  Set(s, [ss[s] EXCEPT
                !.pc = "exit_rm",
                !.ret = IF directory_checksums_match(e) THEN "successful"
                        ELSE "failed",
                !.verok = IF RemoteHasAll(e) THEN @ \cup {e} ELSE @ \ {e}])
    /\ UNCHANGED <<probe, cfg, active, world, fsvars, interf>>

\* only remove src if configured and checksums match (client.py:209-216)
RemoveSource(s) ==
    /\ ss[s].pc = "remove_source"
    /\ LET e == ss[s].cur
       IN  IF cfg.remove /\ e \notin srcDir
           THEN /\ Set(s, Raised(ss[s]))
                /\ UNCHANGED <<srcDir, src, metaFile, lockFile>>
           ELSE /\ Set(s, Returned(ss[s], "successful"))
                /\ IF cfg.remove
                   THEN Rmtree(e)
                   ELSE UNCHANGED <<srcDir, src, metaFile, lockFile>>
    /\ UNCHANGED <<probe, cfg, active, world, flock, dstDir, dst, dstSentinel, interf>>

(***************************************************************************)
(* The remote side: while a session uploads an item and has not yet        *)
(* compared the checksums, another party writes or deletes a file in the   *)
(* remote directory of that item.                                          *)
(***************************************************************************)
RemoteInterference ==
    /\ interf < MaxInterf
    /\ \E s \in active :
         /\ ss[s].pc \in {"loop", "verify"}
         /\ \E f \in Files, c \in Content \cup {Absent} :
              /\ c # dst[ss[s].cur][f]
              /\ dst' = [dst EXCEPT ![ss[s].cur][f] = c]
    /\ interf' = interf + 1
    /\ UNCHANGED <<probe, cfg, active, world, srcDir, src, metaFile, lockFile, flock,
                   dstDir, dstSentinel, ss>>

SessionNext ==
    \/ \E s \in active : StartRun(s)
    \/ \E s \in active : BlockIfRunning(s)
    \/ \E s \in active : GetSrcDates(s)
    \/ \E s \in active : NextDate(s)
    \/ \E s \in active : NextPath(s)
    \/ \E s \in active : PollBetweenDates(s)
    \/ \E s \in active : UploadDirStart(s)
    \/ \E s \in active : UploadFilesStart(s)
    \/ \E s \in active : EnterOpen(s)
    \/ \E s \in active : EnterFlock(s)
    \/ \E s \in active : EnterTouch(s)
    \/ \E s \in active : PutFileDir(s)
    \/ \E s \in active : PutFileFiles(s)
    \/ \E s \in active : LoopDone(s)
    \/ \E s \in active : VerifyChecksums(s)
    \/ \E s \in active : ExitRm(s)
    \/ \E s \in active : ExitRelease(s)
    \/ \E s \in active : ExitRemove(s)
    \/ \E s \in active : RemoveSource(s)

LeakNext == \E s \in active : Finalize(s)

Next ==
    \/ SessionNext
    \/ LeakNext
    \/ RemoteInterference

Spec == Init /\ [][Next]_vars

(***************************************************************************)
(* Two processes call run() once each on the same source root, with the    *)
(* default callbacks and a transport that does not fail.                   *)
(***************************************************************************)
InitTwo == InitWith({1, 2}, 1, {WorldFresh}, FALSE, FALSE) /\ probe = NoProbe

SpecTwo == InitTwo /\ [][SessionNext]_vars

(***************************************************************************)
(* The date parser on its own: one call of file_or_dir_name_to_date with   *)
(* the hour of the clock taken from cfg.hour, on a name and a regex, or on *)
(* the name date.strftime gives for a date and a regex.                    *)
(***************************************************************************)
\* the regexes of the ambiguity test of the repository (test_utils.py:69-83)
RegexYgmgd ==
    [DefaultRegex EXCEPT !.gap = TRUE, !.open = FALSE]
RegexDashed == [DefaultRegex EXCEPT !.sep = <<10>>]

NameRegexes == {RegexYgmgd, DefaultRegex, RegexDashed}

\* the names of that test
Name20220204 == <<2, 0, 2, 2, 0, 2, 0, 4>>
Name202202041 == <<2, 0, 2, 2, 0, 2, 0, 4, 1>>
Name20220204to05 ==
    <<2, 0, 2, 2, 0, 2, 0, 4, 10, 2, 0, 2, 2, 0, 2, 0, 5>>

TestNames ==
    {Name20220204, Name202202041, Name20220204to05,
     <<2, 0, 2, 2, 10, 0, 3, 10, 0, 4>>,
     <<2, 0, 2, 2, 10, 0, 3, 10, 0, 4, 10, 0, 5>>,
     <<2, 0, 2, 2, 10, 2, 0, 2, 1, 10, 0, 4, 10, 0, 5>>,
     <<2, 0, 2, 2, 10, 0, 2, 10, 0, 4>>,
     <<2, 0, 2, 0, 10, 1, 1, 10, 2, 0, 2, 0, 10, 1, 1, 10, 1, 1>>,
     <<2, 0, 2, 0, 10, 1, 1, 10, 2, 0, 11, 2, 0, 2, 0, 10, 1, 2, 10, 2, 0>>}

\* the characters of the other names: two digits and the dash
ProbeChars == {0, 2, 10}

RECURSIVE NamesOfLen(_)
NamesOfLen(n) ==
    IF n = 0 THEN {<<>>}
    ELSE {Append(x, c) : x \in NamesOfLen(n - 1), c \in ProbeChars}

\* 2022-02-02, and what may follow it in a name
Stem == <<2, 0, 2, 2, 10, 0, 2, 10, 0, 2>>
Tails == UNION {NamesOfLen(n) : n \in 0..MaxTail}

ProbeNames ==
    TestNames
        \cup UNION {NamesOfLen(n) : n \in MinNameLen..MaxNameLen}
        \cup {Stem \o tail : tail \in Tails}

\* the years 1970 to 2999, around the latest date and at both ends
ProbeDates ==
    {<<1970, 1, 1>>, <<2023, 12, 31>>, <<2024, 2, 27>>, <<2024, 2, 28>>,
     <<2024, 2, 29>>, <<2024, 3, 1>>, <<2024, 3, 2>>, <<2999, 12, 31>>}

\* the regexes given with a date: every order of the directives; nothing, a
\* dash or .* between them; with and without .* around them; with and without
\* the literal digit 0 after them
DateRegexes ==
    {[keys |-> k, sep |-> s, gap |-> FALSE, open |-> o, pre |-> <<>>,
      post |-> q] :
        k \in Perms({"Y", "m", "d"}), s \in {<<>>, <<10>>}, o \in BOOLEAN,
        q \in {<<>>, <<0>>}}
    \cup
    {[keys |-> k, sep |-> <<>>, gap |-> TRUE, open |-> o, pre |-> <<>>,
      post |-> q] :
        k \in Perms({"Y", "m", "d"}), o \in BOOLEAN, q \in {<<>>, <<0>>}}

\* what a writer of names puts where the regex has .* between two directives
Fills(regex) == IF regex.gap THEN {<<>>, <<10>>} ELSE {<<>>}

InitParse ==
    /\ InitWith({1}, 0, {WorldFresh}, FALSE, FALSE)
    /\ cfg.variant = "directories"
    /\ ~cfg.remove
    /\ \/ \E n \in ProbeNames, r \in NameRegexes :
            probe = [NoProbe EXCEPT !.kind = "name", !.name = n, !.regex = r]
       \/ \E d \in ProbeDates, r \in DateRegexes :
            probe = [NoProbe EXCEPT !.kind = "date", !.date = d, !.regex = r]

\* file_or_dir_name_to_date(name, dated_regex)
ParseName ==
    /\ probe.kind = "name"
    /\ ~probe.applied
    /\ probe' = [probe EXCEPT
                   !.out = file_or_dir_name_to_date_regex(
                               probe.name, probe.regex, cfg.hour),
                   !.applied = TRUE]
    /\ UNCHANGED <<cfg, active, world, fsvars, interf, ss>>

\* file_or_dir_name_to_date(date.strftime(...), dated_regex)
\* (test_utils.py:86-103)
FormatAndParse ==
    /\ probe.kind = "date"
    /\ ~probe.applied
    /\ \E fill \in Fills(probe.regex) :
         LET name == StrftimeRegex(probe.regex, fill, probe.date)
         IN  probe' = [probe EXCEPT
                         !.name = name,
                         !.out = file_or_dir_name_to_date_regex(
                                     name, probe.regex, cfg.hour),
                         !.applied = TRUE]
    /\ UNCHANGED <<cfg, active, world, fsvars, interf, ss>>

ParseNext ==
    \/ ParseName
    \/ FormatAndParse

SpecParse == InitParse /\ [][ParseNext]_vars

(***************************************************************************)
(* UploadClientCallbacks._validate_dated_regex (utils.py:168-184).  A text *)
(* is a sequence of characters, each a string of length one.               *)
(***************************************************************************)
\* utils.py:171-180: the checks and their messages (without the backquotes
\* around the characters they name), in the order of the list
DatedRegexChecks(v) ==
    LET In(a, b) == \E i \in 1..(Len(v) - 1) : v[i] = a /\ v[i + 1] = b
        Count(c) == Cardinality({i \in DOMAIN v : v[i] = c})
        Has(c) == \E i \in DOMAIN v : v[i] = c
    IN  << [ok |-> In("%", "Y"), msg |-> "string must contain %Y"],
           [ok |-> In("%", "m"), msg |-> "string must contain %m"],
           [ok |-> In("%", "d"), msg |-> "string must contain %d"],
           [ok |-> Count("%") = 3,
            msg |-> "string must contain exactly 3 % characters"],
           [ok |-> ~Has("("), msg |-> "string must not contain ("],
           [ok |-> ~Has(")"), msg |-> "string must not contain )"],
           [ok |-> Len(v) > 0 /\ v[1] = "^", msg |-> "string must start with ^"],
           [ok |-> Len(v) > 0 /\ v[Len(v)] = "$",
            msg |-> "string must end with $"] >>

\* mutation of error_message: the message of the first failed check only
error_message_first(checks) ==
    LET failed == SelectSeq(checks, LAMBDA c : ~c.ok)
    IN  IF failed = <<>> THEN <<>> ELSE <<failed[1].msg>>

\* utils.py:181: the messages of the failed checks, which are then joined
error_message(checks) ==
    LET failed == SelectSeq(checks, LAMBDA c : ~c.ok)
    IN  [i \in DOMAIN failed |-> failed[i].msg]

\* utils.py:170-184: the messages of the ValueError, <<>> when v is returned
validate_dated_regex(v) == error_message(DatedRegexChecks(v))

(***************************************************************************)
(* screener.py.  A tree is a function from the paths TreePaths to the      *)
(* contents of the file at that path, Absent for no file.  A path is       *)
(* <<depth, name>>: the file called name under depth nested directories    *)
(* d/d/.../d, which orders the paths as their texts are ordered.           *)
(***************************************************************************)
\* find . -maxdepth 100 when max_depth is None (screener.py:77)
FindDefaultDepth == 100

\* max_depth = None
NoDepth == 0 - 1

\* the file names in ascending order; the name "a b" has a space in it
NameOrder == <<".do-not-touch", "a", "a b">>

TreePaths == {0, 1, FindDefaultDepth} \X Range(NameOrder)

\* screener.py:48-51, File.__lt__: relative_path < other.relative_path
PathLess(p, q) ==
    LET Rank(n) == CHOOSE i \in DOMAIN NameOrder : NameOrder[i] = n
    IN  p[1] < q[1] \/ (p[1] = q[1] /\ Rank(p[2]) < Rank(q[2]))

\* sorted(list(files)) (screener.py:97, 132)
RECURSIVE SortByPath(_)
SortByPath(files) ==
    IF files = {} THEN <<>>
    ELSE LET f == CHOOSE f \in files : \A g \in files :
                      ~PathLess(g.relative_path, f.relative_path)
         IN  <<f>> \o SortByPath(files \ {f})

\* File(filesize=..., md5sum=..., relative_path=...) of the file at path p
FileAt(tree, p) ==
    [filesize |-> Len(tree[p]), md5sum |-> MD5(tree[p]), relative_path |-> p]

\* screener.py:94, 129: relative_path not in [".do-not-touch", "upload-meta.json"]
Reserved(p) == p[1] = 0 /\ p[2] \in {".do-not-touch", "upload-meta.json"}

\* _get_recursive_files (screener.py:100-111): the recursion goes one level
\* down with max_depth - 1 and stops at max_depth = 0
get_recursive_files(tree, max_depth) ==
    {p \in TreePaths :
        /\ tree[p] # Absent
        /\ max_depth = NoDepth \/ p[1] + 1 <= max_depth}

\* screener.py:114-132
screen_local_directory(tree, max_depth) ==
    [files |-> SortByPath({FileAt(tree, p) :
                  p \in {q \in get_recursive_files(tree, max_depth) :
                            ~Reserved(q)}})]

\* the output of the command of screener.py:75-79 on the remote: find prints a
\* line "size  md5  ./path" for each regular file down to the depth given, in
\* the order of its directories (ascending or descending here), and echo adds
\* the line --- done ---.  find puts the path into the sh -c script as it is:
\* for the name "a b" stat and md5sum get the two arguments a and b; no file is
\* called b, so they print the line of the file a next to it when there is
\* one, and nothing otherwise, and then the line is two spaces.
RemoteStdout(tree, max_depth, ascending) ==
    LET depth == IF max_depth = NoDepth THEN FindDefaultDepth ELSE max_depth
        found == SortByPath({FileAt(tree, p) :
                     p \in {q \in TreePaths :
                               tree[q] # Absent /\ q[1] + 1 <= depth}})
        Line(f) ==
            LET twin == <<f.relative_path[1], "a">>
            IN  IF f.relative_path[2] # "a b" THEN [kind |-> "data", file |-> f]
                ELSE IF tree[twin] # Absent
                THEN [kind |-> "data", file |-> FileAt(tree, twin)]
                ELSE [kind |-> "blank"]
        n == Len(found)
    IN  [i \in 1..n |-> Line(found[IF ascending THEN i ELSE n + 1 - i])]
            \o <<[kind |-> "done"]>>

\* screener.py:83-97 on the stdout of the command: strip(" \t\n") takes the
\* lines of white space off both ends; the result is the Directory, or
\* [raised |-> "AssertionError"] when an assert fails
screen_remote_directory(stdout) ==
    LET Blank(i) == stdout[i].kind = "blank"
        first == IF \A i \in DOMAIN stdout : Blank(i) THEN Len(stdout) + 1
                 ELSE CHOOSE i \in DOMAIN stdout :
                          ~Blank(i) /\ \A j \in 1..(i - 1) : Blank(j)
        last == IF \A i \in DOMAIN stdout : Blank(i) THEN 0
                ELSE CHOOSE i \in DOMAIN stdout :
                         ~Blank(i) /\ \A j \in (i + 1)..Len(stdout) : Blank(j)
        lines == SubSeq(stdout, first, last)
    IN  IF lines = <<>> \/ lines[Len(lines)].kind # "done"
        THEN [raised |-> "AssertionError"]
        ELSE IF \E i \in 1..(Len(lines) - 1) : lines[i].kind # "data"
        THEN [raised |-> "AssertionError"]
        ELSE [files |-> SortByPath(
                 {lines[i].file : i \in {j \in 1..(Len(lines) - 1) :
                                     ~Reserved(lines[j].file.relative_path)}})]

\* File.subdirectory (screener.py:59-65) of a file whose relative_path is the
\* sequence of the names between the "/": the set that holds the value
\* returned, empty for None; the path of no names is the empty string
subdirectory(file) ==
    LET file_depth == Len(file.relative_path) - 1
    IN  IF file_depth = 1 THEN {}
        ELSE {SubSeq(file.relative_path, 1, Len(file.relative_path) - 1)}

\* Directory.get_subdirectories (screener.py:13-21)
get_subdirectories(dir) == UNION {subdirectory(dir.files[i]) : i \in DOMAIN dir.files}

\* mutation of FileEq: files are equal when their paths are
FileEqByPath(a, b) == a.relative_path = b.relative_path

\* File.__eq__ and File.__hash__ (screener.py:42-57)
FileEq(a, b) ==
    /\ a.filesize = b.filesize
    /\ a.md5sum = b.md5sum
    /\ a.relative_path = b.relative_path

\* screener.py:135-151: set intersection and set difference of the files
compare_directory_screens(src_dir, dst_dir) ==
    LET src_files == Range(src_dir.files)
        dst_files == Range(dst_dir.files)
    IN  [in_sync |-> {f \in src_files : \E g \in dst_files : FileEq(f, g)},
         not_in_sync |->
             {f \in src_files : ~\E g \in dst_files : FileEq(f, g)}]

(***************************************************************************)
(* The validator and the screener on their own: one call on arguments      *)
(* drawn from bounded sets.                                                *)
(***************************************************************************)
\* The texts given to the validator are made of up to MaxTokens of the tokens
\* ^ $ %Y %m %d % ( ) x; the Directory values given to
\* compare_directory_screens hold up to MaxScreen of the files with two paths,
\* two sizes and two checksums, one file for a path; the trees hold nothing, an
\* empty file or a file of one byte at each of TreePaths.
InitScreen ==
    LET RegexTokens ==
            {<<"^">>, <<"$">>, <<"%", "Y">>, <<"%", "m">>, <<"%", "d">>,
             <<"%">>, <<"(">>, <<")">>, <<"x">>}
        RECURSIVE TextsOf(_)
        TextsOf(n) ==
            IF n = 0 THEN {<<>>}
            ELSE {text \o token :
                     text \in TextsOf(n - 1), token \in RegexTokens}
        universe ==
            {[filesize |-> s, md5sum |-> MD5(b), relative_path |-> p] :
                s \in 0..1, b \in {<<>>, <<1>>}, p \in {<<0, "a">>, <<1, "a">>}}
        Screens ==
            {[files |-> SortByPath(S)] :
                S \in {T \in SUBSET universe :
                          /\ Cardinality(T) <= MaxScreen
                          /\ \A f, g \in T :
                                f.relative_path = g.relative_path => f = g}}
        \* the files x.txt, a/b.txt, a/b/c.txt, a/d/e.txt and d/e/f/g.txt
        NestedPaths ==
            {<<"x.txt">>, <<"a", "b.txt">>, <<"a", "b", "c.txt">>,
             <<"a", "d", "e.txt">>, <<"d", "e", "f", "g.txt">>}
        RECURSIVE SetToSeq(_)
        SetToSeq(S) ==
            IF S = {} THEN <<>>
            ELSE LET x == CHOOSE y \in S : TRUE
                 IN  <<x>> \o SetToSeq(S \ {x})
        \* what the remote command can print: lines of three fields, the line
        \* of two spaces, a line of two fields, the line --- done ---
        OutputLines ==
            {[kind |-> "data",
              file |-> [filesize |-> 1, md5sum |-> MD5(<<1>>), relative_path |-> p]] :
                p \in {<<0, "a">>, <<1, "a">>, <<0, ".do-not-touch">>}}
            \cup {[kind |-> "blank"], [kind |-> "bad"], [kind |-> "done"]}
    IN  /\ InitWith({1}, 0, {WorldFresh}, FALSE, FALSE)
        /\ cfg.variant = "directories"
        /\ ~cfg.remove
        /\ cfg.hour = 0
        /\ \/ \E v \in UNION {TextsOf(n) : n \in 0..MaxTokens} :
                probe = [NoProbe EXCEPT !.kind = "regex", !.arg = v]
           \/ \E a \in Screens, b \in Screens :
                probe = [NoProbe EXCEPT !.kind = "compare", !.arg = <<a, b>>]
           \/ \E tree \in [TreePaths -> {Absent, <<>>, <<1>>}],
                 max_depth \in {NoDepth} \cup 0..MaxDepthArg :
                probe = [NoProbe EXCEPT !.kind = "screen",
                                        !.arg = <<tree, max_depth>>]
           \/ \E paths \in SUBSET NestedPaths :
                probe = [NoProbe EXCEPT
                    !.kind = "subdirs",
                    !.arg = [files |-> SetToSeq(
                                {[filesize |-> 1, md5sum |-> MD5(<<1>>),
                                  relative_path |-> p] : p \in paths})]]
           \/ \E n \in 0..MaxLines :
                \E stdout \in [1..n -> OutputLines], ok \in BOOLEAN :
                  probe = [NoProbe EXCEPT !.kind = "remote",
                                          !.arg = <<stdout, ok>>]

\* UploadClientCallbacks(dated_regex=v)
ValidateDatedRegex ==
    /\ probe.kind = "regex"
    /\ ~probe.applied
    /\ probe' = [probe EXCEPT !.res = validate_dated_regex(probe.arg),
                              !.applied = TRUE]
    /\ UNCHANGED <<cfg, active, world, fsvars, interf, ss>>

\* compare_directory_screens(src_dir, dst_dir)
CompareScreens ==
    /\ probe.kind = "compare"
    /\ ~probe.applied
    /\ probe' = [probe EXCEPT
                   !.res = compare_directory_screens(probe.arg[1], probe.arg[2]),
                   !.applied = TRUE]
    /\ UNCHANGED <<cfg, active, world, fsvars, interf, ss>>

\* screen_local_directory on a tree, and screen_remote_directory on what the
\* remote command prints for the same tree
ScreenBoth ==
    /\ probe.kind = "screen"
    /\ ~probe.applied
    /\ \E ascending \in BOOLEAN :
         probe' = [probe EXCEPT
             !.res = [local |-> screen_local_directory(probe.arg[1], probe.arg[2]),
                      remote |-> screen_remote_directory(
                          RemoteStdout(probe.arg[1], probe.arg[2], ascending))],
             !.applied = TRUE]
    /\ UNCHANGED <<cfg, active, world, fsvars, interf, ss>>

\* screen_remote_directory when remote_connection.run returns a result with
\* the given stdout and ok (screener.py:80-83)
ScreenRemote ==
    /\ probe.kind = "remote"
    /\ ~probe.applied
    /\ probe' = [probe EXCEPT
                   !.res = IF probe.arg[2]
                           THEN screen_remote_directory(probe.arg[1])
                           ELSE [raised |-> "AssertionError"],
                   !.applied = TRUE]
    /\ UNCHANGED <<cfg, active, world, fsvars, interf, ss>>

\* Directory(files=...).get_subdirectories()
GetSubdirectories ==
    /\ probe.kind = "subdirs"
    /\ ~probe.applied
    /\ probe' = [probe EXCEPT !.res = get_subdirectories(probe.arg),
                              !.applied = TRUE]
    /\ UNCHANGED <<cfg, active, world, fsvars, interf, ss>>

ScreenNext ==
    \/ GetSubdirectories
    \/ ValidateDatedRegex
    \/ CompareScreens
    \/ ScreenBoth
    \/ ScreenRemote

SpecScreen == InitScreen /\ [][ScreenNext]_vars

(***************************************************************************)
(* Properties.                                                             *)
(***************************************************************************)
\* the date in the name of a group
DateOf(e) == GroupsToDate(e, 1)

\* the groups whose date is newer than MaxDate
FutureEntries == {e \in Entries : ~DateLE(DateOf(e), LatestDate(cfg.hour))}

\* session s is inside the with statement: __enter__ has returned and
\* __exit__ has not begun
HoldsTwinLock(s) == ss[s].pc \in {"loop", "verify"}

\* the run() of session s is over: it returned or raised
RunOver(s) == ss[s].pc \in {"done", "raised"}

\* the data files of group e that were there at the start are all still there
SourceIntact(e) ==
    /\ cfg.variant = "directories" => e \in srcDir
    /\ \A f \in Files : world.src[e][f] # Absent => src[e][f] = world.src[e][f]

\* C1: in directories mode, whenever run() deletes the source tree of a
\* non-empty item, every file of that tree is at that moment on the remote under
\* the same path with the same size and MD5.
C1_DeleteOnlyWhatIsOnRemote ==
    [][\A s \in active :
          (/\ cfg.variant = "directories"
           /\ ss[s].pc = "remove_source"
           /\ ss[s].cur \in srcDir
           /\ ss[s].cur \notin srcDir')
              => RemoteHasAll(ss[s].cur)]_vars

\* C2: an item's outcome is successful only if at the post-upload verification
\* every file of the local item was on the remote with the same path, size and
\* MD5.
C2_SuccessfulOnlyIfSuperset ==
    \A s \in active : \A e \in Entries :
        (cfg.variant = "directories" /\ ss[s].out[e] = "successful")
            => e \in ss[s].verok

\* C3: for every item dispatched by run(), after the run its source still
\* exists if and only if remove_files_after_upload is false or its outcome is
\* neither successful nor no files found.
C3_SourceKeptIffNotRemovable ==
    \A s \in active : \A e \in Entries :
        (RunOver(s) /\ ss[s].run = 1 /\ ss[s].out[e] # "none")
            => (SourceIntact(e)
                  <=> (\/ ~cfg.remove
                       \/ ss[s].out[e] \notin {"successful", "no files found"}))

\* C4: in files mode a local file is deleted only after the verification for its
\* date has succeeded and the lock has been released, not because its own put
\* returned.
C4_FilesDeletedAfterVerification ==
    [][(/\ cfg.variant = "files"
        /\ \E x \in Entries \X Files :
             src[x[1]][x[2]] # Absent /\ src'[x[1]][x[2]] = Absent)
          => \E s \in active :
               /\ ss[s].fd = 0
               /\ ss[s].cur \in ss[s].verok]_vars

\* C5: an item whose date is newer than MaxDate is never touched: no put, no
\* remote directory, no lock, no meta file, no deletion and no outcome.
C5_FutureItemsUntouched ==
    \A e \in FutureEntries :
        /\ src[e] = world.src[e]
        /\ (e \in srcDir) = (e \in world.dirs)
        /\ metaFile[e] = world.meta[e]
        /\ lockFile[e] = 0
        /\ dst[e] = NoFiles
        /\ e \notin dstDir
        /\ e \notin dstSentinel
        /\ \A s \in active :
             /\ ss[s].out[e] = "none"
             /\ ss[s].cur # e
             /\ \A f \in Files : <<e, f>> \notin ss[s].putset

\* C5 witness: at hour 0 the run is over with 2024-02-28 uploaded and removed
\* while the directory of 2024-02-29, one day too new, still holds its file.
C5_Witness ==
    /\ cfg.hour = 0
    /\ cfg.remove
    /\ E2 \in FutureEntries
    /\ src[E2][1] # Absent
    /\ ss[1].pc = "done"
    /\ ss[1].out[E1] = "successful"
    /\ \A f \in Files : src[E1][f] = Absent

\* C6: with remove_files_after_upload false, a run of directories mode that
\* follows a run in which every item was successful, with no change to either
\* side in between, puts no data file.
C6_SecondRunPutsNothing ==
    \A s \in active :
        (/\ cfg.variant = "directories"
         /\ ~cfg.remove
         /\ ss[s].prevOK
         /\ interf = 0) => ss[s].nput = 0

\* C7: a file of a directory item that is in sync on the remote when the item
\* starts (same path, same content) is not put again.
C7_InSyncFilesNotPutAgain ==
    \A s \in active :
        cfg.variant = "directories" => ss[s].putset \cap ss[s].sync0 = {}

\* C8: no two sessions hold the TwinLock of the same item at once.
C8_MutualExclusion ==
    \A s \in active : \A t \in active \ {s} :
        ~(/\ HoldsTwinLock(s)
          /\ HoldsTwinLock(t)
          /\ LockKey(s) = LockKey(t)
          /\ ss[s].cur = ss[t].cur)

\* C9: if another process holds the OS lock on a .do-not-touch under the source
\* root when run() makes its pre-run check, run() fails there, before it lists
\* the items, takes a lock or talks to the remote.
C9_GuardStopsSecondProcess ==
    \A s \in active :
        ss[s].guardDue => (ss[s].pc = "raised" /\ ~ss[s].touched)

\* C10: when run() has returned normally there is no .do-not-touch on either
\* side for any item this run processed: not in the directory the item was
\* locked in (its own directory, or the source root in files mode) and not in
\* the remote directory that goes with it.
C10_NoSentinelAfterRun ==
    \A s \in active :
        ss[s].pc = "done" =>
            \A e \in Entries :
                ss[s].out[e] # "none" =>
                    LET k == IF cfg.variant = "files" THEN Root ELSE e
                    IN  lockFile[k] = 0 /\ k \notin dstSentinel

\* C10 witness: run() returned, an item was uploaded under its lock and its
\* directory is still there.
C10_Witness ==
    /\ ss[1].pc = "done"
    /\ ~cfg.remove
    /\ \E e \in Entries :
         /\ ss[1].out[e] = "successful"
         /\ e \in srcDir
         /\ e \in dstDir

\* the positions of a session inside TwinFileLock.__exit__
ExitPcs == {"exit_rm", "exit_release", "exit_remove"}

\* C11: once the TwinLock of an item has been acquired, every way of leaving the
\* locked region (normal completion, failed verification, abort, an error of put
\* or of a remote command, the sentinel removal included) ends with the local OS
\* lock released by this session.
C11_LockReleasedOnEveryExit ==
    [][\A s \in active :
          (ss[s].pc \in ExitPcs /\ ss'[s].pc \notin ExitPcs)
              => \/ lockFile'[LockKey(s)] = 0
                 \/ flock'[lockFile'[LockKey(s)]] # s]_vars

\* C12: if the remote touch fails after the local lock was taken, then when the
\* error reaches the caller this session no longer holds the local OS lock and
\* the local .do-not-touch is removed.
C12_RemoteTouchFailureCleansUp ==
    [][\A s \in active :
          (ss[s].pc = "enter_touch" /\ ss'[s].pc = "raised")
              => /\ flock'[lockFile[LockKey(s)]] # s
                 /\ lockFile'[LockKey(s)] = 0]_vars

ItemPcs ==
    {"dir_start", "files_start", "enter_open", "enter_flock", "enter_touch",
     "loop", "verify", "remove_source"} \cup ExitPcs

\* C15: within an item, in directories and in files mode, should_abort_upload()
\* is polled between every two consecutive puts: no file is put while the put
\* before it in the same item has not been followed by a poll.
C15_PollBetweenFiles ==
    [][\A s \in active :
          ss'[s].nput = ss[s].nput + 1 => ~ss[s].unpolled]_vars

\* C16: once an item of this run has ended as aborted, run() dispatches no
\* later item, whatever should_abort_upload() answers afterwards.
C16_NothingAfterAbortedItem ==
    \A s \in active :
        (\E e \in Entries : ss[s].out[e] = "aborted") => ss[s].pc \notin ItemPcs

\* C17: an item is dispatched only if should_abort_upload() was polled after
\* the item before it returned, also when both are directories of one date.
C17_PollBetweenItems ==
    \A s \in active :
        ss[s].pc \in {"dir_start", "files_start"} => ss[s].polledSince

\* the entries get_src_dates considers whose name reads as more than one date
AmbiguousNames ==
    {n \in ConsideredNames : filename_is_ambiguous_for_dated_regex(n)}

\* C18: if an entry of the configured kind has an ambiguous name, run() raises
\* before any item is processed: nothing was locked, put, created or deleted on
\* either side, and the error lists every ambiguous entry.
C18_AmbiguityStopsRun ==
    \A s \in active :
        (AmbiguousNames # {} /\ ss[s].pc \notin {"idle", "check", "list"})
            => /\ ss[s].pc = "raised"
               /\ ss[s].amb = AmbiguousNames
               /\ ~ss[s].touched
               /\ ss[s].nput = 0
               /\ src = world.src /\ srcDir = world.dirs
               /\ dst = world.dst /\ dstDir = world.ddirs
               /\ dstSentinel = {}
               /\ \A k \in Keys : lockFile[k] = 0 /\ metaFile[k] = world.meta[k]

\* C18 witness: run() raised with both ambiguous entries in the error while the
\* entry with a plain name waits untouched.
C18_Witness ==
    /\ ss[1].pc = "raised"
    /\ Cardinality(ss[1].amb) = 2
    /\ ss[1].amb = AmbiguousNames
    /\ ParsedDate(E1) = DateOf(E1)
    /\ src[E1][1] # Absent
    /\ dst[E1][1] = Absent

\* MaxDate: today minus one day if the hour of the clock is > 0, today minus
\* two days otherwise
MaxDate == IF cfg.hour > 0 THEN PrevDay(Today) ELSE PrevDay(PrevDay(Today))

\* C19: for every date d (of the years 1970 to 2999) and every dated_regex,
\* whatever the order of %Y, %m and %d in it, parsing the name that formatting d
\* with the regex gives returns d when d <= MaxDate and none when d > MaxDate.
C19_DateRoundTrip ==
    (probe.kind = "date" /\ probe.applied)
        => probe.out = IF DateLE(probe.date, MaxDate) THEN probe.date
                       ELSE NoDate

\* the date readings of a name: the year, month and day that the body of the
\* regex reads in the substrings of the name
Readings(regex, name) ==
    UNION {{Strptime(regex, sub, m) : m \in FindAllBody(regex, sub, 1)} :
           sub \in Substrings(name)}

\* C20: the parser raises for ambiguity exactly for the names with more than one
\* distinct date reading; with ^.*%Y%m%d.*$ it raises for 202202041 and for
\* 20220204-20220205 and not for 20220204; a name with a single reading is never
\* reported as ambiguous.
C20_AmbiguousIffSeveralReadings ==
    (probe.kind = "name" /\ probe.applied)
        => /\ (probe.out = Ambiguous)
                 <=> (Cardinality(Readings(probe.regex, probe.name)) > 1)
           /\ (/\ probe.regex = DefaultRegex
               /\ probe.name \in {Name202202041, Name20220204to05})
                 => probe.out = Ambiguous
           /\ (probe.regex = DefaultRegex /\ probe.name = Name20220204)
                 => probe.out = <<2022, 2, 4>>

\* C24: a directory item with no entries other than .do-not-touch and
\* upload-meta.json ends with "no files found", with no put and without the
\* lock being taken, and its directory is deleted exactly when
\* remove_files_after_upload is set.
C24_EmptyDirectoryItem ==
    [][\A s \in active :
          LET e == ss[s].cur
          IN  (/\ ss[s].pc = "dir_start"
               /\ ss'[s].pc # "dir_start"
               /\ e \in srcDir
               /\ src[e] = NoFiles)
                  => /\ ss'[s].out[e] = "no files found"
                     /\ ss'[s].pc \notin {"enter_open", "raised"}
                     /\ ss'[s].nput = ss[s].nput
                     /\ dst' = dst
                     /\ flock' = flock
                     /\ dstSentinel' = dstSentinel
                     /\ ss'[s].fd = ss[s].fd
                     /\ (e \in srcDir') <=> ~cfg.remove
                     /\ ~cfg.remove => /\ lockFile' = lockFile
                                       /\ metaFile' = metaFile]_vars

\* C24 witness: a directory that held nothing but an upload-meta.json ended with
\* "no files found" and is still there, as remove_files_after_upload is not set.
C24_Witness ==
    \E s \in active, e \in Entries :
        /\ ss[s].out[e] = "no files found"
        /\ ~cfg.remove
        /\ e \in srcDir
        /\ src[e] = NoFiles
        /\ metaFile[e] # NoMeta
        /\ lockFile[e] = 0
        /\ ss[s].nput = 0

\* C25: when a put fails while an item is processed, the item ends with
\* outcome failed and run() goes on to the next item.
C25_FailureEndsItemOnly ==
    [][\A s \in active :
          (/\ ss[s].exc
           /\ ss[s].cur \in Entries
           /\ ss'[s].cur # ss[s].cur)
              => /\ ss'[s].out[ss[s].cur] = "failed"
                 /\ ss'[s].pc \in {"paths", "poll"}]_vars

\* C26: when the TwinLock of an item cannot be acquired (the local lock is
\* held, or the remote touch fails) the item ends with outcome failed, this
\* session holds no lock on the item and no file of the item was put.
C26_LockFailureEndsItem ==
    [][\A s \in active :
          (/\ ss[s].pc \in {"enter_flock", "enter_touch"}
           /\ ss'[s].pc \notin {"enter_flock", "enter_touch", "loop"})
              => /\ ss'[s].out[ss[s].cur] = "failed"
                 /\ ss'[s].pc \in {"paths", "poll"}
                 /\ ss'[s].fd = 0
                 /\ ss'[s].nput = ss[s].nput]_vars

\* this session holds the TwinLock of the directory k: the OS lock on the local
\* .do-not-touch, and both sentinels exist
TwinLockHeld(s, k) ==
    /\ lockFile[k] # 0
    /\ flock[lockFile[k]] = s
    /\ ss[s].fd = lockFile[k]
    /\ k \in dstSentinel

\* C27: every put of a data file and the verification of an item happen while
\* the session holds the TwinLock of the item, and a sentinel exists only while
\* a session is between taking and giving back the lock of its directory.
C27_WorkOnlyUnderTwinLock ==
    /\ [][\A s \in active :
             (\/ ss'[s].nput = ss[s].nput + 1
              \/ ss[s].pc = "verify" /\ ss'[s].pc # "verify")
                 => TwinLockHeld(s, LockKey(s))]_vars
    /\ [](\A k \in Keys :
             (lockFile[k] # 0 \/ k \in dstSentinel)
                 => \E s \in active :
                      /\ ss[s].pc \in {"enter_flock", "enter_touch", "loop",
                                       "verify"} \cup ExitPcs
                      /\ LockKey(s) = k)

C29_RemovalAfterRelease ==
    [][\A s \in active :
          (\/ \E e \in Entries, f \in Files :
                 src[e][f] # Absent /\ src'[e][f] = Absent
           \/ srcDir' # srcDir /\ srcDir' \subseteq srcDir)
              => ~(/\ lockFile[LockKey(s)] # 0
                   /\ flock[lockFile[LockKey(s)]] = s
                   /\ ss[s].pc \in {"loop", "verify"} \cup ExitPcs)]_vars

\* C30: after the last missing file of an item has been put the item goes on to
\* the verification and does not end with outcome aborted.
C30_LastPutLeadsToVerification ==
    [][\A s \in active :
          (/\ cfg.variant = "directories"
           /\ ss[s].pc = "loop"
           /\ Len(ss[s].todo) = 1
           /\ ss'[s].nput = ss[s].nput + 1)
              => /\ ss'[s].ret # "aborted"
                 /\ ss'[s].pc = "loop"]_vars

\* C21: the validator accepts a dated_regex exactly when it starts with ^, ends
\* with $, contains %Y, %m and %d each exactly once and no other %, and contains
\* neither ( nor ); the message of a rejection names every rule that is
\* violated (start, end, the % directives, each parenthesis), not only the first.
C21_ValidatorAcceptsIffWellFormed ==
    (probe.kind = "regex" /\ probe.applied)
        => LET v == probe.arg
               said == Range(probe.res)
               Times(k) == Cardinality({i \in 1..(Len(v) - 1) :
                                           v[i] = "%" /\ v[i + 1] = k})
               starts == Len(v) > 0 /\ v[1] = "^"
               ends == Len(v) > 0 /\ v[Len(v)] = "$"
               directives ==
                   /\ \A k \in {"Y", "m", "d"} : Times(k) = 1
                   /\ \A i \in DOMAIN v :
                        v[i] = "%" => i < Len(v) /\ v[i + 1] \in {"Y", "m", "d"}
               open == \E i \in DOMAIN v : v[i] = "("
               close == \E i \in DOMAIN v : v[i] = ")"
               aboutDirectives ==
                   {"string must contain %Y", "string must contain %m",
                    "string must contain %d",
                    "string must contain exactly 3 % characters"}
           IN  /\ (probe.res = <<>>)
                     <=> (starts /\ ends /\ directives /\ ~open /\ ~close)
               /\ ~starts <=> "string must start with ^" \in said
               /\ ~ends <=> "string must end with $" \in said
               /\ ~directives <=> said \cap aboutDirectives # {}
               /\ open <=> "string must not contain (" \in said
               /\ close <=> "string must not contain )" \in said

\* C21 witness: the text %Y( was rejected with a message that names the missing
\* %m and %d, the number of %, the parenthesis, the start and the end.
C21_Witness ==
    /\ probe.kind = "regex"
    /\ probe.applied
    /\ probe.arg = <<"%", "Y", "(">>
    /\ Len(probe.res) = 6

\* C22: in_sync is the set of the files of src that are in dst with the same
\* path, size and MD5, not_in_sync is the rest of src; the two are disjoint,
\* their union is src, and a file that is only in dst is in neither.
C22_CompareSplitsSource ==
    (probe.kind = "compare" /\ probe.applied)
        => LET src_files == Range(probe.arg[1].files)
               dst_files == Range(probe.arg[2].files)
               in_sync == probe.res.in_sync
               not_in_sync == probe.res.not_in_sync
           IN  /\ in_sync = src_files \cap dst_files
               /\ not_in_sync = src_files \ dst_files
               /\ in_sync \cap not_in_sync = {}
               /\ in_sync \cup not_in_sync = src_files
               /\ \A f \in dst_files \ src_files :
                    f \notin in_sync \cup not_in_sync
               /\ \A f \in src_files :
                    (\E g \in dst_files :
                        /\ g.relative_path = f.relative_path
                        /\ g.filesize # f.filesize \/ g.md5sum # f.md5sum)
                    /\ f \notin dst_files
                        => f \in not_in_sync

\* C22 witness: src holds a file whose path is in dst with another MD5, and the
\* comparison put it in not_in_sync.
C22_Witness ==
    /\ probe.kind = "compare"
    /\ probe.applied
    /\ \E f \in probe.res.not_in_sync, g \in Range(probe.arg[2].files) :
         /\ g.relative_path = f.relative_path
         /\ g.filesize = f.filesize
         /\ g.md5sum # f.md5sum
    /\ probe.res.in_sync # {}

\* C23: for every tree and every max_depth, None included, the local screen of
\* the tree and the remote screen of what the remote command prints for the
\* same tree are the same Directory.
C23_LocalAndRemoteScreenAgree ==
    (probe.kind = "screen" /\ probe.applied)
        => probe.res.remote = probe.res.local

\* C31: within an item the files are put one at a time in ascending order of
\* their relative paths: the file of every put of a session, successful or not,
\* is greater than every file the session has put before it in the same item.
C31_PutsInAscendingOrder ==
    [][\A s \in active :
         (ss[s].pc = "loop" /\ ss[s].todo # <<>> /\ ss'[s] # ss[s])
            => /\ \A i \in DOMAIN ss[s].up :
                    LexLess(BaseName(ss[s].up[i]), BaseName(Head(ss[s].todo)))
               /\ ss'[s].nput <= ss[s].nput + 1
               /\ ss'[s].nput = ss[s].nput + 1
                    => ss'[s].up = Append(ss[s].up, Head(ss[s].todo))]_vars

\* C31 witness: a session has put the two files of one item, the smaller first.
C31_Witness ==
    /\ Len(ss[1].up) = 2
    /\ ss[1].nput = 2
    /\ ss[1].up[1][1] = ss[1].up[2][1]
    /\ LexLess(BaseName(ss[1].up[1]), BaseName(ss[1].up[2]))

\* C32: run() dispatches the items of the source root in ascending order of
\* basename, whatever the order in which the file system enumerates them: when
\* an item is dispatched, every item that this run has finished before it has
\* a smaller basename.
C32_ItemsInAscendingOrder ==
    \A s \in active :
        ss[s].pc \in {"dir_start", "files_start"}
            => \A e \in Entries :
                 ss[s].out[e] # "none" => LexLess(e, ss[s].cur)

\* C33: no retry within an item.  The file of every put of a session was not
\* put before in this run, the item of the put has not ended before in this
\* run, and no put of this item has failed before; after a put has failed the
\* session is on its way out of the item.
C33_NoRetryWithinItem ==
    /\ [][\A s \in active :
            (ss[s].pc = "loop" /\ ss[s].todo # <<>> /\ ss'[s] # ss[s])
               => /\ Head(ss[s].todo) \notin ss[s].putset
                  /\ ~ss[s].exc
                  /\ ss[s].cur \in Entries => ss[s].out[ss[s].cur] = "none"]_vars
    /\ [](\A s \in active :
            /\ ss[s].exc
                 => ss[s].pc \in {"exit_rm", "exit_release", "exit_remove"}
            /\ ss[s].nput = Cardinality(ss[s].putset))

\* C33 witness: the put of the second file of an item has failed after the
\* first file was put, and the session is leaving the item.
C33_Witness ==
    /\ ss[1].exc
    /\ ss[1].pc = "exit_rm"
    /\ ss[1].nput = 1
    /\ Len(ss[1].todo) = 1
    /\ Len(ss[1].up) = 1

\* C34: files that are only in the remote item directory do not change the
\* outcome and are left alone: when the verification of an item finds every
\* local file on the remote with the same size and MD5, the item is successful,
\* and no step of a session changes a remote file that has no local file.
C34_RemoteOnlyFilesIgnored ==
    [][\A s \in active :
         /\ (ss[s].pc = "verify" /\ ss'[s] # ss[s] /\ RemoteHasAll(ss[s].cur))
               => ss'[s].ret = "successful"
         /\ ss'[s] # ss[s]
               => \A e \in Entries, f \in Files :
                    src[e][f] = Absent => dst'[e][f] = dst[e][f]]_vars

\* C35: a .do-not-touch that a crashed run left in the source tree and that no
\* process has locked does not block a later run: the pre-run check passes when
\* no lock file is locked, the lock of an item whose directory holds such a
\* file is acquired, and after the release of the item the file is gone.
C35_StaleSentinelDoesNotBlock ==
    [][\A s \in active :
         /\ (/\ ss[s].pc = "check"
             /\ ss'[s] # ss[s]
             /\ \A k \in GlobDoNotTouch : flock[lockFile[k]] = 0)
               => ss'[s].pc = "list"
         /\ (/\ ss[s].pc = "enter_flock"
             /\ ss'[s] # ss[s]
             /\ LockKey(s) \in ss[s].debris)
               => ss'[s].pc = "enter_touch" /\ flock'[ss[s].fd] = s
         /\ (ss[s].pc = "exit_remove" /\ ss'[s] # ss[s])
               => lockFile'[LockKey(s)] = 0]_vars

\* C35 witness: the run found the .do-not-touch of a crashed run in an item
\* directory, has uploaded that item and kept the directory, and the file is
\* gone.
C35_Witness ==
    /\ ~cfg.remove
    /\ ss[1].pc = "done"
    /\ \E e \in ss[1].debris \cap Entries :
         /\ ss[1].out[e] = "successful"
         /\ e \in srcDir
         /\ lockFile[e] = 0

\* C36: screen_remote_directory never returns a partial inventory.  It fails
\* and returns no Directory if the command failed, if the last line of the
\* output that is not white space is not --- done ---, or if a line before
\* that one does not split into exactly three fields; otherwise it returns
\* exactly the files of the lines whose path is not a reserved name.
C36_NoPartialInventory ==
    (probe.kind = "remote" /\ probe.applied)
        => LET stdout == probe.arg[1]
               ok == probe.arg[2]
               written == {i \in DOMAIN stdout : stdout[i].kind # "blank"}
               n == IF written = {} THEN 0
                    ELSE CHOOSE i \in written : \A j \in written : j <= i
               complete ==
                   /\ ok
                   /\ n > 0
                   /\ stdout[n].kind = "done"
                   /\ \A i \in 1..(n - 1) : stdout[i].kind = "data"
               listed ==
                   {stdout[i].file : i \in {j \in 1..(n - 1) :
                       /\ stdout[j].kind = "data"
                       /\ ~Reserved(stdout[j].file.relative_path)}}
           IN  IF complete
               THEN /\ DOMAIN probe.res = {"files"}
                    /\ Range(probe.res.files) = listed
                    /\ Len(probe.res.files) = Cardinality(listed)
               ELSE probe.res = [raised |-> "AssertionError"]

\* C37: get_subdirectories returns exactly the paths of the parent directories
\* of the files that are not directly in the root: a/b.txt gives a, a/b/c.txt
\* gives a/b and x.txt gives nothing, so that the target directory of every
\* put is among the directories returned or is the root.
C37_SubdirectoriesAreParents ==
    (probe.kind = "subdirs" /\ probe.applied)
        => LET paths == {probe.arg.files[i].relative_path :
                            i \in DOMAIN probe.arg.files}
               Parent(p) == SubSeq(p, 1, Len(p) - 1)
           IN  /\ probe.res = {Parent(p) : p \in {q \in paths : Len(q) > 1}}
               /\ \A p \in paths : Len(p) > 1 => Parent(p) \in probe.res

C39_NoDeletionUnderForeignLock ==
    [][\A s \in active, e \in Entries :
         (e \in srcDir /\ e \notin srcDir' /\ ss'[s] # ss[s])
            => \A t \in active \ {s} :
                 ~(TwinLockHeld(t, e) /\ ss[t].cur = e)]_vars

\* C40: a session that fails to acquire the local lock of an item leaves the
\* item at once: it neither creates nor removes the remote .do-not-touch, does
\* not delete the local .do-not-touch and does not touch the OS lock, so that a
\* session that holds the TwinLock of the item still holds it afterwards.
C40_FailedAcquireLeavesSentinels ==
    [][\A s \in active :
         (/\ ss[s].pc = "enter_flock"
          /\ ss'[s] # ss[s]
          /\ flock[ss[s].fd] # 0)
            => /\ ss'[s].pc = "raised"
               /\ dstSentinel' = dstSentinel
               /\ lockFile' = lockFile
               /\ flock' = flock
               /\ \A t \in active \ {s}, k \in Keys :
                    TwinLockHeld(t, k) => TwinLockHeld(t, k)']_vars

\* C40 witness: one session has failed to lock an item directory and has left
\* run(), while the other session holds the TwinLock of that item and is in
\* its upload loop.
C40_Witness ==
    \E s \in active, t \in active, e \in Entries :
        /\ s # t
        /\ ss[s].pc = "raised"
        /\ ss[s].out[e] = "raised"
        /\ ss[s].touched
        /\ ss[s].nput = 0
        /\ e \in srcDir
        /\ ss[t].pc = "loop"
        /\ ss[t].cur = e
        /\ TwinLockHeld(t, e)

====
